---- MODULE Spec2Model ----
(***************************************************************************)
(* gobench: benchmark-run orchestration (main.go).                         *)
(*                                                                         *)
(* One run of the tool is a sequential process whose position is pc.  The  *)
(* external collaborators (git, the benchmark engine, benchstat, pprof,    *)
(* qcachegrind, the file system) are modelled at their interface: every    *)
(* external command either succeeds or fails, and the repository state it  *)
(* acts on (HEAD, dirty flag, stash stack) is part of the state.           *)
(*                                                                         *)
(* Strings that the program takes apart (revision labels, file names) are  *)
(* sequences of one-character strings, so that normalizeName is computed   *)
(* and not assumed.  The empty string "" is the empty sequence << >>.      *)
(***************************************************************************)
EXTENDS Integers, Sequences, FiniteSets, TLC

\* ---------------------------------------------------------------- bounds
\* Largest repeat count a user passes with --count (0 means unset).
MaxCount == 2

\* ------------------------------------------------------ program constants
\* Number of runs when comparing branches (if not set).
benchStatCountCompare == 4

\* var goExe = "go"
goExe == "go"

\* ------------------------------------------------------------- label sets
Empty == << >>
Master == <<"m">>
FeatSlash == <<"f", "/", "x">>
FeatDash == <<"f", "-", "x">>
TagV1 == <<"v", "1">>
StashLabel == <<"s", "t", "a", "s", "h">>
HeadLabel == <<"H", "E", "A", "D">>

\* Branches and tags of the repository the tool runs in, with the commit
\* each one points at.
Branches == {Master, FeatSlash, FeatDash}
Tags == {TagV1}
Commits == {"c1", "c2", "c3"}
NoBranch == Empty

RefCommit(label) ==
    IF label = Master THEN "c1"
    ELSE IF label = FeatSlash THEN "c2"
    ELSE IF label = FeatDash THEN "c3"
    ELSE "c2"

\* Values of the --base flag tried: unset, every branch, the tag.
BaseChoices == {Empty} \cup Branches \cup Tags
\* Values of the --base-go-exe flag tried.
BaseGoExeChoices == {"", "go2"}
\* Values of the --prof-type flag tried ("bad" is not a valid type).
ProfTypeChoices == {"", "cpu", "mem", "block", "bad"}
\* --out-dir unset or set.
OutDirChoices == {Empty, <<"o">>}
\* What ioutil.TempDir returns.
TempDirName == <<"t">>

\* ------------------------------------------------------- pure functions
\* strings.ReplaceAll(name, "/", "-")
RECURSIVE ReplaceAll(_, _, _)
ReplaceAll(s, old, new) ==
    IF s = << >> THEN << >>
    ELSE <<IF Head(s) = old THEN new ELSE Head(s)>> \o ReplaceAll(Tail(s), old, new)

normalizeName(name) == ReplaceAll(name, "/", "-")

\* filepath.Join(dir, file) for a file name without separators
Join(dir, file) == dir \o <<"/">> \o file

benchOutFilename(outDir, name) == Join(outDir, normalizeName(name) \o <<".bench">>)

profileOutFilename(outDir, name) == Join(outDir, normalizeName(name) \o <<".pprof">>)

callgrindOutFilename(outDir) == Join(outDir, <<"callgrind.out">>)

AllLabels == Branches \cup Tags \cup {StashLabel, HeadLabel}
AllDirs == {<<"o">>, TempDirName}
AllFiles ==
    {benchOutFilename(d, l) : d \in AllDirs, l \in AllLabels}
    \cup {profileOutFilename(d, l) : d \in AllDirs, l \in AllLabels}
    \cup {callgrindOutFilename(d) : d \in AllDirs}

\* File contents: Absent (no such file), 0 (created, empty), or the index
\* (1 or 2) of the benchmark run whose output the file holds.
Absent == -1

VARIABLES
    pc,             \* position of the process
    Base,           \* r.Base
    BaseGoExe,      \* r.BaseGoExe
    Count,          \* r.Count
    ProfType,       \* r.ProfType
    ProfCallgrind,  \* r.ProfCallgrind
    OutDir,         \* r.OutDir
    outDirAuto,     \* the deferred os.Remove(cfg.OutDir) is registered
    outDirExists,   \* the auto-allocated directory exists on disk
    currentBranch,  \* r.currentBranch
    hasUncommitted, \* local of runBenchmarks
    first, second,  \* locals of runBenchmarks
    exe1, exe2,     \* locals of runBenchmarks
    head,           \* git: [branch, commit] checked out
    dirty,          \* git: working tree has uncommitted changes
    stashDepth,     \* git: entries on the stash stack
    files,          \* file system: contents of each file
    runs,           \* number of benchmark runs started
    log,            \* operations issued, in order
    announced,      \* which start-up announcement was printed
    exitStatus,     \* "running", "ok" or "fatal"
    startHead,      \* history: head when the tool started
    userBase,       \* history: --base as given
    userCount,      \* history: --count as given
    queryFailed     \* history: the start-up query that failed, "" if none

vars == <<pc, Base, BaseGoExe, Count, ProfType, ProfCallgrind, OutDir,
          outDirAuto, outDirExists, currentBranch, hasUncommitted,
          first, second, exe1, exe2, head, dirty, stashDepth, files, runs,
          log, announced, exitStatus, startHead, userBase, userCount,
          queryFailed>>

inputVars == <<BaseGoExe, ProfType, ProfCallgrind, startHead, userBase, userCount>>
cfgVars == <<inputVars, queryFailed>>
gitVars == <<head, dirty, stashDepth>>
localVars == <<hasUncommitted, first, second, exe1, exe2>>

\* An entry of the operation log.
Ev(op) == [op |-> op, label |-> Empty, exe |-> "", count |-> 0, site |-> 0,
           f1 |-> Empty, f2 |-> Empty, ok |-> TRUE]

StartHeads ==
    {[branch |-> b, commit |-> RefCommit(b)] : b \in Branches}
    \cup {[branch |-> NoBranch, commit |-> c] : c \in Commits}

Init ==
    /\ pc = "main"
    /\ Base \in BaseChoices
    /\ BaseGoExe \in BaseGoExeChoices
    /\ Count \in 0..MaxCount
    /\ ProfType \in ProfTypeChoices
    /\ ProfCallgrind \in BOOLEAN
    /\ OutDir \in OutDirChoices
    /\ outDirAuto = FALSE
    /\ outDirExists = FALSE
    /\ currentBranch = Empty
    /\ hasUncommitted = FALSE
    /\ first = Empty /\ second = Empty
    /\ exe1 = "" /\ exe2 = ""
    /\ head \in StartHeads
    /\ dirty \in BOOLEAN
    /\ stashDepth = 0
    /\ files = [f \in AllFiles |-> Absent]
    /\ runs = 0
    /\ log = << >>
    /\ announced = "none"
    /\ exitStatus = "running"
    /\ startHead = head
    /\ userBase = Base
    /\ userCount = Count
    /\ queryFailed = ""

\* Variant of Fatal: the error is dropped and main runs on to its end.
Fatal_Ignored ==
    /\ pc' = "exit"
    /\ exitStatus' = exitStatus

\* log.Fatal / p.Fail: os.Exit without running deferred calls.
Fatal ==
    /\ pc' = "failed"
    /\ exitStatus' = "fatal"

\* ----------------------------------------------------------------- main
\* Variant of ValidateProfType: the profile type is not validated.
ValidateProfType_Skipped ==
    /\ pc = "main"
    /\ pc' = "outdir"
    /\ UNCHANGED <<Base, Count, OutDir, outDirAuto, outDirExists, currentBranch,
                   files, runs, log, announced, exitStatus>>
    /\ UNCHANGED <<cfgVars, gitVars, localVars>>

\* main: validation of --prof-type.
ValidateProfType ==
    /\ pc = "main"
    /\ IF ProfType # "" /\ ProfType # "mem" /\ ProfType # "cpu" /\ ProfType # "block"
         THEN Fatal
         ELSE pc' = "outdir" /\ UNCHANGED exitStatus
    /\ UNCHANGED <<Base, Count, OutDir, outDirAuto, outDirExists, currentBranch,
                   files, runs, log, announced>>
    /\ UNCHANGED <<cfgVars, gitVars, localVars>>

\* main: allocation of the output directory.
CreateOutDir ==
    /\ pc = "outdir"
    /\ IF OutDir = Empty
         THEN \E ok \in BOOLEAN :
                IF ok
                  THEN /\ OutDir' = TempDirName
                       /\ outDirAuto' = TRUE
                       /\ outDirExists' = TRUE
                       /\ pc' = "branch"
                       /\ UNCHANGED exitStatus
                  ELSE /\ Fatal
                       /\ UNCHANGED <<OutDir, outDirAuto, outDirExists>>
         ELSE /\ pc' = "branch"
              /\ UNCHANGED <<OutDir, outDirAuto, outDirExists, exitStatus>>
    /\ queryFailed' = IF pc' = "failed" THEN "tempdir" ELSE queryFailed
    /\ UNCHANGED <<Base, Count, currentBranch, files, runs, log, announced>>
    /\ UNCHANGED <<inputVars, gitVars, localVars>>

\* git rev-parse --abbrev-ref HEAD: the branch name, or "HEAD" when detached.
AbbrevRefHead(h) == IF h.branch = NoBranch THEN HeadLabel ELSE h.branch

\* Variant of Announcement: the single-branch line is always printed.
Announcement_AlwaysSingle(base) == "single"

\* The start-up line main prints: "Benchmark and compare branch" when
\* r.Base is set, "Benchmark branch" otherwise.
Announcement(base) == IF base # Empty THEN "compare" ELSE "single"

\* getCurrentBranch and the start-up announcement.
getCurrentBranch ==
    /\ pc = "branch"
    /\ \E ok \in BOOLEAN :
         IF ok
           THEN /\ currentBranch' = AbbrevRefHead(head)
                /\ announced' = Announcement(Base)
                /\ pc' = "uncommitted"
                /\ UNCHANGED <<exitStatus, queryFailed>>
           ELSE /\ Fatal
                /\ queryFailed' = "branch"
                /\ UNCHANGED <<currentBranch, announced>>
    /\ UNCHANGED <<Base, Count, OutDir, outDirAuto, outDirExists, files, runs, log>>
    /\ UNCHANGED <<inputVars, gitVars, localVars>>

\* -------------------------------------------------------- runBenchmarks
\* Variant of ConflictingFlags: the conflict between --base and a dirty tree
\* is not detected.
ConflictingFlags_NoCheck(uncommitted, base) == FALSE

\* hasUncommitted && r.Base != ""
ConflictingFlags(uncommitted, base) == uncommitted /\ base # Empty

\* r.Base after the stash substitution.
ResolveBase(base, uncommitted) ==
    IF base = Empty /\ uncommitted THEN StashLabel ELSE base

\* Variant of ResolveCount: an unset count always resolves to 1.
ResolveCount_AlwaysOne(count, base, baseGoExe) ==
    IF count = 0 THEN 1 ELSE count

\* r.Count after the default has been resolved.
ResolveCount(count, base, baseGoExe) ==
    IF count = 0
      THEN IF base # Empty \/ baseGoExe # "" THEN benchStatCountCompare ELSE 1
      ELSE count

\* Variant of ResolveExe2: the alternate binary is never used.
ResolveExe2_Default(e1, baseGoExe) == e1

\* exe2 := r.BaseGoExe, or exe1 when that is empty.
ResolveExe2(e1, baseGoExe) == IF baseGoExe = "" THEN e1 ELSE baseGoExe

\* The else-if of runBenchmarks: a base run on a clean tree.
CompareClean(base, baseGoExe) == base # Empty \/ baseGoExe # ""

\* first, as left by the branch of runBenchmarks taken.
ResolveFirst(base, baseGoExe, uncommitted, current) ==
    IF ~uncommitted /\ CompareClean(base, baseGoExe) /\ base = Empty
      THEN current
      ELSE base

\* Variant of FirstStep: on a clean tree the base run is left out.
FirstStep_SkipBaseline(uncommitted, base, baseGoExe) ==
    IF uncommitted THEN "stashSave" ELSE "bench2"

\* The branch of runBenchmarks taken after the locals are set.
FirstStep(uncommitted, base, baseGoExe) ==
    IF uncommitted THEN "stashSave"
    ELSE IF CompareClean(base, baseGoExe) THEN "checkoutBase"
    ELSE "bench2"

\* hasUncommittedChanges, then runBenchmarks up to the choice of branch.
\* git diff-index --quiet exits 0 on a clean tree and 1 on a dirty one; a
\* command that cannot be run is fatal.
runBenchmarksBegin ==
    /\ pc = "uncommitted"
    /\ \E launched \in BOOLEAN :
         IF ~launched \/ ConflictingFlags(dirty, Base)
           THEN /\ Fatal
                /\ hasUncommitted' = IF launched THEN dirty ELSE hasUncommitted
                /\ queryFailed' = IF launched THEN queryFailed ELSE "uncommitted"
                /\ UNCHANGED <<Base, Count, first, second, exe1, exe2>>
           ELSE /\ hasUncommitted' = dirty
                /\ Base' = ResolveBase(Base, dirty)
                /\ Count' = ResolveCount(Count, Base', BaseGoExe)
                /\ first' = ResolveFirst(Base', BaseGoExe, dirty, currentBranch)
                /\ second' = currentBranch
                /\ exe1' = goExe
                /\ exe2' = ResolveExe2(goExe, BaseGoExe)
                /\ pc' = FirstStep(dirty, Base', BaseGoExe)
                /\ UNCHANGED <<exitStatus, queryFailed>>
    /\ UNCHANGED <<OutDir, outDirAuto, outDirExists, currentBranch, files, runs,
                   log, announced>>
    /\ UNCHANGED <<inputVars, gitVars>>

\* git stash save / git stash pop; a failure is fatal (checkErr in stash).
stash(command, from, to) ==
    /\ pc = from
    /\ \E ok \in BOOLEAN :
         /\ log' = Append(log, [Ev("stash") EXCEPT !.label = command, !.ok = ok])
         /\ IF ok
              THEN /\ dirty' = (command = <<"pop">>)
                   /\ stashDepth' = IF command = <<"save">> THEN stashDepth + 1
                                    ELSE stashDepth - 1
                   /\ pc' = to
                   /\ UNCHANGED exitStatus
              ELSE /\ Fatal
                   /\ UNCHANGED <<dirty, stashDepth>>
    /\ UNCHANGED <<Base, Count, OutDir, outDirAuto, outDirExists, currentBranch,
                   files, runs, announced, head>>
    /\ UNCHANGED <<cfgVars, localVars>>

StashSave == stash(<<"save">>, "stashSave", "bench1")

StashPop == stash(<<"pop">>, "stashPop", "bench2")

\* What git checkout <label> leaves checked out on a clean tree.
CheckoutTarget(h, label) ==
    IF label = HeadLabel THEN h
    ELSE IF label \in Branches THEN [branch |-> label, commit |-> RefCommit(label)]
    ELSE [branch |-> NoBranch, commit |-> RefCommit(label)]

\* Labels git can resolve.
Resolvable(label) == label \in Branches \cup Tags \cup {HeadLabel}

\* r.checkout(branch) under checkErr.
checkout(label, from, to) ==
    /\ pc = from
    /\ \E gitOK \in BOOLEAN :
         LET ok == gitOK /\ Resolvable(label) IN
         /\ log' = Append(log, [Ev("checkout") EXCEPT !.label = label, !.ok = ok])
         /\ IF ok
              THEN /\ head' = CheckoutTarget(head, label)
                   /\ pc' = to
                   /\ UNCHANGED exitStatus
              ELSE /\ Fatal
                   /\ UNCHANGED head
    /\ UNCHANGED <<Base, Count, OutDir, outDirAuto, outDirExists, currentBranch,
                   files, runs, announced, dirty, stashDepth>>
    /\ UNCHANGED <<cfgVars, localVars>>

CheckoutBase == checkout(first, "checkoutBase", "bench1")

CheckoutCurrent == checkout(second, "checkoutCurrent", "bench2")

\* --------------------------------------------------------- runBenchmark
\* runBenchmark's result after cmd.Run: the error built with fmt.Errorf is
\* dropped and nil is returned whatever the engine's exit status.
runBenchmarkError(engineOK) == FALSE

\* c.profilingEnabled()
profilingEnabled(profType) == profType # ""

\* Where main goes once runBenchmarks has returned.
AfterRunBenchmarks(profType) ==
    IF profilingEnabled(profType) THEN "pprof" ELSE "exit"

\* Variant of CompareWanted: the comparison is run unconditionally.
CompareWanted_Always(f) == TRUE

\* Variant of CompareWanted: the comparison is run only for a base label
\* (r.Base), not for the alternate binary on the current branch.
CompareWanted_BaseOnly(f) == Base # Empty

\* if first != "" { runBencStat }
CompareWanted(f) == f # Empty

\* Variant of AfterBenchmark: the stash is not popped after the base run.
AfterBenchmark_NoPop(site) ==
    IF site = 1
      THEN IF hasUncommitted THEN "bench2"
           ELSE IF second # first THEN "checkoutCurrent" ELSE "bench2"
      ELSE IF CompareWanted(first) THEN "benchstat"
           ELSE AfterRunBenchmarks(ProfType)

\* Variant of AfterBenchmark: the current branch is not checked out again.
AfterBenchmark_NoCheckoutBack(site) ==
    IF site = 1
      THEN IF hasUncommitted THEN "stashPop" ELSE "bench2"
      ELSE IF CompareWanted(first) THEN "benchstat"
           ELSE AfterRunBenchmarks(ProfType)

\* Variant of AfterBenchmark: the current branch is checked out again even
\* when it is the base.
AfterBenchmark_AlwaysCheckoutBack(site) ==
    IF site = 1
      THEN IF hasUncommitted THEN "stashPop" ELSE "checkoutCurrent"
      ELSE IF CompareWanted(first) THEN "benchstat"
           ELSE AfterRunBenchmarks(ProfType)

\* Variant of AfterBenchmark: the comparison is left to after the viewer,
\* main goes on right after the second run.
AfterBenchmark_NoCompare(site) ==
    IF site = 1
      THEN IF hasUncommitted THEN "stashPop"
           ELSE IF second # first THEN "checkoutCurrent" ELSE "bench2"
      ELSE AfterRunBenchmarks(ProfType)

\* Position after a benchmark run that returned nil.
AfterBenchmark(site) ==
    IF site = 1
      THEN IF hasUncommitted THEN "stashPop"
           ELSE IF second # first THEN "checkoutCurrent" ELSE "bench2"
      ELSE IF CompareWanted(first) THEN "benchstat"
           ELSE AfterRunBenchmarks(ProfType)

\* runBenchmark up to createBenchOutputFile: os.Create truncates the result
\* file; its failure is returned and is fatal in the caller.
benchCreate(site, exeName, name) ==
    /\ pc = (IF site = 1 THEN "bench1" ELSE "bench2")
    /\ \E created \in BOOLEAN :
         /\ log' = Append(log, [Ev("benchStart") EXCEPT !.label = name,
                                  !.site = site, !.exe = exeName, !.count = Count, !.ok = created])
         /\ IF created
              THEN /\ files' = [files EXCEPT ![benchOutFilename(OutDir, name)] = 0]
                   /\ pc' = (IF site = 1 THEN "bench1Run" ELSE "bench2Run")
                   /\ UNCHANGED exitStatus
              ELSE /\ Fatal
                   /\ UNCHANGED files
    /\ UNCHANGED <<Base, Count, OutDir, outDirAuto, outDirExists, currentBranch,
                   runs, announced>>
    /\ UNCHANGED <<cfgVars, gitVars, localVars>>

\* runBenchmark from cmd.Run to its return: the engine writes its records
\* to the result file and, when profiling, its profile; the file is closed.
benchRun(site, exeName, name) ==
    /\ pc = (IF site = 1 THEN "bench1Run" ELSE "bench2Run")
    /\ \E engineOK \in BOOLEAN, profileWritten \in BOOLEAN :
         /\ (engineOK => profileWritten)
         /\ runs' = runs + 1
         /\ log' = Append(log, [Ev("benchEnd") EXCEPT !.label = name,
                                  !.site = site, !.exe = exeName, !.count = Count, !.ok = engineOK])
         /\ files' = [f \in AllFiles |->
                        IF f = benchOutFilename(OutDir, name) THEN runs + 1
                        ELSE IF /\ f = profileOutFilename(OutDir, name)
                                /\ profilingEnabled(ProfType)
                                /\ profileWritten
                          THEN runs + 1
                        ELSE files[f]]
         /\ IF runBenchmarkError(engineOK)
              THEN Fatal
              ELSE pc' = AfterBenchmark(site) /\ UNCHANGED exitStatus
    /\ UNCHANGED <<Base, Count, OutDir, outDirAuto, outDirExists, currentBranch,
                   announced>>
    /\ UNCHANGED <<cfgVars, gitVars, localVars>>

BaselineCreate == benchCreate(1, exe1, first)

BaselineRun == benchRun(1, exe1, first)

CurrentCreate == benchCreate(2, exe2, second)

CurrentRun == benchRun(2, exe2, second)

\* runBencStat(first, second) under checkErr.
runBencStat ==
    /\ pc = "benchstat"
    /\ \E ok \in BOOLEAN :
         /\ log' = Append(log, [Ev("benchstat") EXCEPT
                                  !.f1 = benchOutFilename(OutDir, first),
                                  !.f2 = benchOutFilename(OutDir, second),
                                  !.ok = ok])
         /\ IF ok
              THEN pc' = AfterRunBenchmarks(ProfType) /\ UNCHANGED exitStatus
              ELSE Fatal
    /\ UNCHANGED <<Base, Count, OutDir, outDirAuto, outDirExists, currentBranch,
                   files, runs, announced>>
    /\ UNCHANGED <<cfgVars, gitVars, localVars>>

\* ------------------------------------------------------------- runPprof
\* go tool pprof: it may fail to start (error returned, dropped by main),
\* exit with an error (log.Fatal) or succeed.
runPprof ==
    /\ pc = "pprof"
    /\ \E outcome \in {"nostart", "waitfail", "ok"} :
         /\ log' = Append(log, [Ev("pprof") EXCEPT
                       !.exe = goExe,
                       !.f1 = IF Base # Empty THEN profileOutFilename(OutDir, Base)
                              ELSE Empty,
                       !.f2 = profileOutFilename(OutDir, currentBranch),
                       !.ok = (outcome = "ok")])
         /\ files' = IF outcome = "ok" /\ ProfCallgrind
                       THEN [files EXCEPT ![callgrindOutFilename(OutDir)] = runs]
                       ELSE files
         /\ IF outcome = "waitfail"
              THEN Fatal
              ELSE /\ pc' = IF outcome = "ok" /\ ProfCallgrind THEN "qcachegrind"
                            ELSE "exit"
                   /\ UNCHANGED exitStatus
    /\ UNCHANGED <<Base, Count, OutDir, outDirAuto, outDirExists, currentBranch,
                   runs, announced>>
    /\ UNCHANGED <<cfgVars, gitVars, localVars>>

\* qcachegrind on the callgrind file: its errors are returned by runPprof
\* and dropped by main.
runQcachegrind ==
    /\ pc = "qcachegrind"
    /\ \E ok \in BOOLEAN :
         log' = Append(log, [Ev("qcachegrind") EXCEPT
                               !.f1 = callgrindOutFilename(OutDir), !.ok = ok])
    /\ pc' = "exit"
    /\ UNCHANGED <<Base, Count, OutDir, outDirAuto, outDirExists, currentBranch,
                   files, runs, announced, exitStatus>>
    /\ UNCHANGED <<cfgVars, gitVars, localVars>>

\* ----------------------------------------------------------------- exit
\* f lies in directory d
InDir(f, d) == Len(f) > Len(d) /\ SubSeq(f, 1, Len(d) + 1) = d \o <<"/">>

DirEmpty(d) == \A f \in AllFiles : InDir(f, d) => files[f] = Absent

\* main returns: the deferred os.Remove(cfg.OutDir) runs; os.Remove deletes
\* a directory only when it is empty, and its error is ignored.
Exit ==
    /\ pc = "exit"
    /\ outDirExists' = IF outDirAuto /\ DirEmpty(OutDir) THEN FALSE ELSE outDirExists
    /\ pc' = "done"
    /\ exitStatus' = "ok"
    /\ UNCHANGED <<Base, Count, OutDir, outDirAuto, currentBranch, files, runs,
                   log, announced>>
    /\ UNCHANGED <<cfgVars, gitVars, localVars>>

Next ==
    \/ ValidateProfType
    \/ CreateOutDir
    \/ getCurrentBranch
    \/ runBenchmarksBegin
    \/ StashSave
    \/ BaselineCreate
    \/ BaselineRun
    \/ StashPop
    \/ CheckoutBase
    \/ CheckoutCurrent
    \/ CurrentCreate
    \/ CurrentRun
    \/ runBencStat
    \/ runPprof
    \/ runQcachegrind
    \/ Exit

Spec == Init /\ [][Next]_vars

\* ------------------------------------------------------------ log helpers
Ops == [i \in 1..Len(log) |-> log[i].op]

Positions(op) == {i \in 1..Len(log) : log[i].op = op}

NumOps(op) == Cardinality(Positions(op))

Succeeded == pc = "done"

\* The repository and benchmark operations of the log: what was done, to
\* which label, on which files.
IsRepoOp(e) == e.op \in {"stash", "checkout", "benchStart", "benchEnd", "benchstat"}

Brief(e) == <<e.op, e.label, e.f1, e.f2>>

RepoOps == LET sel == SelectSeq(log, IsRepoOp)
           IN [i \in 1..Len(sel) |-> Brief(sel[i])]

\* The names of the result files, written out character by character.
BenchFile(dir, chars) == dir \o <<"/">> \o chars \o <<".bench">>

\* The label with every "/" replaced by "-", position by position.
Dashed(label) == [i \in 1..Len(label) |-> IF label[i] = "/" THEN "-" ELSE label[i]]

\* ------------------------------------------------------------------ C1
\* C1: with uncommitted changes and an explicit --base, the run ends in a
\* fatal error and no checkout, stash, benchmark run or comparison has been
\* issued: the log of operations is empty.
C1_FailFastOnDirtyWithBase ==
    /\ (userBase # Empty /\ (dirty \/ hasUncommitted)) =>
          /\ log = << >>
          /\ pc \in {"main", "outdir", "branch", "uncommitted", "failed"}
    /\ (userBase # Empty /\ hasUncommitted) =>
          (pc = "failed" /\ exitStatus = "fatal")

C1_Witness ==
    /\ userBase # Empty /\ hasUncommitted /\ dirty
    /\ pc = "failed" /\ currentBranch # Empty

\* ------------------------------------------------------------------ C2
\* C2: without --base and with a dirty tree, a run that completes has issued
\* exactly: stash save, the run labelled "stash" (start and end), stash pop,
\* the run labelled with the current branch, the comparison of stash.bench
\* with <current>.bench; so one save, one pop, two runs and no checkout.
C2_StashSequence ==
    (Succeeded /\ userBase = Empty /\ hasUncommitted) =>
       /\ RepoOps = << <<"stash", <<"save">>, Empty, Empty>>,
                       <<"benchStart", StashLabel, Empty, Empty>>,
                       <<"benchEnd", StashLabel, Empty, Empty>>,
                       <<"stash", <<"pop">>, Empty, Empty>>,
                       <<"benchStart", currentBranch, Empty, Empty>>,
                       <<"benchEnd", currentBranch, Empty, Empty>>,
                       <<"benchstat", Empty,
                         BenchFile(OutDir, StashLabel),
                         BenchFile(OutDir, Dashed(currentBranch))>> >>
       /\ NumOps("stash") = 2
       /\ NumOps("benchEnd") = 2
       /\ NumOps("checkout") = 0

C2_Witness ==
    /\ Succeeded /\ userBase = Empty /\ hasUncommitted
    /\ NumOps("benchstat") = 1 /\ stashDepth = 0 /\ dirty

\* ------------------------------------------------------------------ C3
\* C3: with --base different from the current branch and a clean tree, a run
\* that completes has issued exactly: checkout of the base, the run labelled
\* base, checkout of the current branch, the run labelled current, the
\* comparison of <base>.bench with <current>.bench; and no stash operation.
C3_BranchSequence ==
    (Succeeded /\ userBase # Empty /\ userBase # currentBranch /\ ~hasUncommitted) =>
       /\ RepoOps = << <<"checkout", userBase, Empty, Empty>>,
                       <<"benchStart", userBase, Empty, Empty>>,
                       <<"benchEnd", userBase, Empty, Empty>>,
                       <<"checkout", currentBranch, Empty, Empty>>,
                       <<"benchStart", currentBranch, Empty, Empty>>,
                       <<"benchEnd", currentBranch, Empty, Empty>>,
                       <<"benchstat", Empty,
                         BenchFile(OutDir, Dashed(userBase)),
                         BenchFile(OutDir, Dashed(currentBranch))>> >>
       /\ NumOps("stash") = 0

C3_Witness ==
    /\ Succeeded /\ userBase = FeatSlash /\ currentBranch = Master
    /\ ~hasUncommitted /\ NumOps("checkout") = 2 /\ NumOps("benchstat") = 1

\* ------------------------------------------------------------------ C4
\* C4 as stated: in every completed run without --base on a clean tree there
\* is exactly one benchmark run, against the current label, and neither the
\* comparison nor the profile viewer has run.
C4_Original ==
    (Succeeded /\ userBase = Empty /\ ~hasUncommitted) =>
       /\ NumOps("benchEnd") = 1
       /\ \A i \in Positions("benchEnd") : log[i].label = currentBranch
       /\ NumOps("benchstat") = 0
       /\ NumOps("pprof") = 0

\* C4 amended: without --base, without --base-go-exe and on a clean tree,
\* no comparison is ever issued and at most one benchmark run is started; a
\* completed run has made exactly one benchmark run, against the current
\* label, and has started the profile viewer exactly when a profile type
\* was requested.
C4_SingleRun ==
    (userBase = Empty /\ BaseGoExe = "" /\ ~dirty /\ ~hasUncommitted) =>
       /\ NumOps("benchstat") = 0
       /\ NumOps("benchStart") <= 1
       /\ NumOps("checkout") = 0 /\ NumOps("stash") = 0
       /\ Succeeded =>
            /\ NumOps("benchEnd") = 1
            /\ \A i \in Positions("benchEnd") : log[i].label = currentBranch
            /\ (NumOps("pprof") = 1) <=> (ProfType # "")
            /\ NumOps("pprof") <= 1

C4_Witness ==
    /\ Succeeded /\ userBase = Empty /\ BaseGoExe = "" /\ ~hasUncommitted
    /\ NumOps("benchEnd") = 1 /\ NumOps("pprof") = 1

\* ------------------------------------------------------------------ C5
\* A base run is part of this execution: the tree was dirty, or --base or
\* --base-go-exe was given.
BaselinePlanned ==
    /\ pc \notin {"main", "outdir", "branch", "uncommitted"}
    /\ first # Empty

\* C5: the base run (call site 1) has ended before the run against the
\* current label (call site 2) starts: every start of the current run is
\* preceded by the end of the base run when one is part of the execution,
\* and nothing of the base run follows anything of the current run.
C5_BaselineFirst ==
    /\ \A i \in 1..Len(log) :
         (log[i].site = 2 /\ (BaselinePlanned \/ \E k \in 1..Len(log) : log[k].site = 1)) =>
            \E j \in 1..(i - 1) : log[j].op = "benchEnd" /\ log[j].site = 1
    /\ \A i, j \in 1..Len(log) :
         (log[i].site = 1 /\ log[j].site = 2) => i < j

C5_Witness ==
    /\ BaselinePlanned /\ pc = "bench2Run"
    /\ \E j \in 1..Len(log) : log[j].op = "benchEnd" /\ log[j].site = 1
    /\ log[Len(log)].op = "benchStart" /\ log[Len(log)].site = 2

\* ------------------------------------------------------------------ C6
\* C6 as stated: a run that completes leaves checked out the revision that
\* was checked out when it started.
C6_EndsOnStartRevision ==
    Succeeded => head.commit = startHead.commit

\* ------------------------------------------------------------------ C7
\* C7 as stated: once the benchmark engine has exited with a non-zero
\* status the run is fatal and nothing is issued after that benchmark run.
C7_EngineFailureIsFatal ==
    \A i \in Positions("benchEnd") :
       ~log[i].ok => (pc = "failed" /\ exitStatus = "fatal" /\ i = Len(log))

\* ------------------------------------------------------------------ C8
\* Labels benchmark runs of this execution were started for.
LabelsInRun == {log[i].label : i \in Positions("benchStart")}

\* C8 as stated: the result file of a label is the label with "/" replaced
\* by "-" plus ".bench", and two distinct labels used in one run have
\* different result files.
C8_FilenamesDistinct ==
    /\ \A l \in LabelsInRun :
         benchOutFilename(OutDir, l) = BenchFile(OutDir, Dashed(l))
    /\ \A l1, l2 \in LabelsInRun :
         l1 # l2 => benchOutFilename(OutDir, l1) # benchOutFilename(OutDir, l2)

\* ------------------------------------------------------------------ C9
\* C9: with --base equal to the current branch and a clean tree, a completed
\* run has issued one checkout (of the base), no checkout back, two
\* benchmark runs and the comparison (of the result file with itself).
C9_SameBranch ==
    (Succeeded /\ userBase # Empty /\ userBase = currentBranch /\ ~hasUncommitted) =>
       /\ RepoOps = << <<"checkout", userBase, Empty, Empty>>,
                       <<"benchStart", userBase, Empty, Empty>>,
                       <<"benchEnd", userBase, Empty, Empty>>,
                       <<"benchStart", currentBranch, Empty, Empty>>,
                       <<"benchEnd", currentBranch, Empty, Empty>>,
                       <<"benchstat", Empty,
                         BenchFile(OutDir, Dashed(userBase)),
                         BenchFile(OutDir, Dashed(currentBranch))>> >>
       /\ NumOps("checkout") = 1
       /\ NumOps("benchEnd") = 2
       /\ NumOps("benchstat") = 1

C9_Witness ==
    /\ Succeeded /\ userBase = FeatSlash /\ currentBranch = FeatSlash
    /\ ~hasUncommitted /\ NumOps("checkout") = 1 /\ NumOps("benchstat") = 1

\* ----------------------------------------------------------------- C10
\* A comparison is pending: --base given, or the tree dirty (base becomes
\* "stash"), or --base-go-exe given.
ComparisonPending == userBase # Empty \/ hasUncommitted \/ BaseGoExe # ""

\* C10: every benchmark run is passed the user's count when it is not 0,
\* and otherwise 1 when no comparison is pending and 4 when one is.
C10_CountPassed ==
    \A i \in 1..Len(log) :
       log[i].op \in {"benchStart", "benchEnd"} =>
          log[i].count = IF userCount # 0 THEN userCount
                         ELSE IF ComparisonPending THEN 4 ELSE 1

C10_Witness ==
    /\ Succeeded /\ userCount = 0 /\ NumOps("benchEnd") = 2
    /\ \A i \in Positions("benchEnd") : log[i].count = 4

C12_ViewerFailureIsFatal ==
    (\E i \in 1..Len(log) : log[i].op \in {"pprof", "qcachegrind"} /\ ~log[i].ok)
       => exitStatus # "ok"

\* ----------------------------------------------------------------- C13
InvalidProfType == ProfType \notin {"", "cpu", "mem", "block"}

C14_AutoDirRemoved ==
    Succeeded =>
       /\ outDirAuto => ~outDirExists
       /\ ~outDirAuto => \E f \in AllFiles : InDir(f, OutDir) /\ files[f] # Absent

\* ----------------------------------------------------------------- C15
\* C15 as stated: a process that has terminated, normally or fatally, after
\* a successful stash save has issued the stash pop.
C15_NeverMidStash ==
    (pc \in {"failed", "done"}) =>
       \A i \in Positions("stash") :
          (log[i].label = <<"save">> /\ log[i].ok) =>
             \E j \in Positions("stash") : j > i /\ log[j].label = <<"pop">>

\* ----------------------------------------------------------------- C16
\* C16 as stated: the two files given to the comparison are different files,
\* the first holding the output of the base run (run 1) and the second the
\* output of the run against the current label (run 2).
C16_ResultFilesKept ==
    \A i \in Positions("benchstat") :
       /\ log[i].f1 # log[i].f2
       /\ files[log[i].f1] = 1
       /\ files[log[i].f2] = 2

\* ----------------------------------------------------------------- C17
\* C17: the base run (call site 1) uses the default binary "go"; the run
\* against the current label (call site 2) uses the binary of --base-go-exe
\* when given and "go" otherwise; the profile viewer uses "go".
C17_Toolchains ==
    \A i \in 1..Len(log) :
       /\ (log[i].op \in {"benchStart", "benchEnd"} /\ log[i].site = 1) =>
             log[i].exe = "go"
       /\ (log[i].op \in {"benchStart", "benchEnd"} /\ log[i].site = 2) =>
             log[i].exe = IF BaseGoExe # "" THEN BaseGoExe ELSE "go"
       /\ log[i].op = "pprof" => log[i].exe = "go"

C17_Witness ==
    /\ Succeeded /\ BaseGoExe = "go2" /\ NumOps("pprof") = 1
    /\ \E i, j \in Positions("benchEnd") :
          /\ log[i].site = 1 /\ log[i].exe = "go"
          /\ log[j].site = 2 /\ log[j].exe = "go2"

\* ----------------------------------------------------------------- C18
\* runBenchmarks has returned.
RunBenchmarksReturned == pc \in {"pprof", "qcachegrind", "exit", "done"}

\* C18: the comparison is issued at most once and only after two benchmark
\* runs have ended; once runBenchmarks has returned, it was issued exactly
\* when two runs were made, and not when one run was made.
C18_CompareIffTwoRuns ==
    /\ NumOps("benchstat") <= 1
    /\ \A i \in Positions("benchstat") :
          /\ Cardinality({j \in Positions("benchEnd") : j < i}) = 2
          /\ \A j \in Positions("benchStart") \cup Positions("benchEnd") : j < i
    /\ RunBenchmarksReturned =>
          /\ NumOps("benchEnd") \in {1, 2}
          /\ (NumOps("benchstat") = 1) <=> (NumOps("benchEnd") = 2)
          /\ (NumOps("benchEnd") = 1) => (NumOps("benchstat") = 0)

C18_Witness ==
    /\ RunBenchmarksReturned /\ NumOps("benchEnd") = 2 /\ NumOps("benchstat") = 1
    /\ userBase = Empty /\ BaseGoExe = "go2" /\ ~hasUncommitted

\* ----------------------------------------------------------------- C19
\* C19 as stated: in a completed run the comparing announcement was printed
\* exactly when the comparison was run, and the single-branch announcement
\* exactly when one benchmark run was made.
C19_Original ==
    Succeeded =>
       /\ (announced = "compare") <=> (NumOps("benchstat") = 1)
       /\ (announced = "single") <=> (NumOps("benchEnd") = 1)

\* C19 amended: the comparing announcement is printed exactly when --base
\* was given and the single-branch announcement otherwise; a completed run
\* that printed the comparing announcement has run the comparison, and a
\* completed run with one benchmark run has printed the single-branch one.
C19_AnnouncementFollowsBase ==
    /\ announced # "none" =>
          /\ (announced = "compare") <=> (userBase # Empty)
          /\ (announced = "single") <=> (userBase = Empty)
    /\ Succeeded =>
          /\ announced # "none"
          /\ (announced = "compare") => (NumOps("benchstat") = 1)
          /\ (NumOps("benchEnd") = 1) => (announced = "single")

C19_Witness ==
    /\ Succeeded /\ announced = "compare" /\ userBase = Master
    /\ NumOps("benchstat") = 1

\* ----------------------------------------------------------------- C20
\* Profile paths given to the benchmark runs that ended before position i.
ProfilePathsBefore(i) ==
    {profileOutFilename(OutDir, log[j].label) :
        j \in {k \in Positions("benchEnd") : k < i}}

\* C20: every profile path the viewer is given (the current one, and the
\* base one when r.Base is set) is the profile path of a benchmark run that
\* ended before; the viewer is given the base profile exactly when r.Base
\* is set; and the viewer is started after every benchmark run and after
\* the comparison, when one is due.
C20_ViewerAfterRuns ==
    \A i \in Positions("pprof") :
       /\ log[i].f2 \in ProfilePathsBefore(i)
       /\ log[i].f1 # Empty => log[i].f1 \in ProfilePathsBefore(i)
       /\ (log[i].f1 # Empty) <=> (userBase # Empty \/ hasUncommitted)
       /\ \A j \in 1..Len(log) :
             log[j].op \in {"benchStart", "benchEnd", "benchstat", "stash", "checkout"}
                => j < i
       /\ first # Empty =>
             /\ Cardinality({j \in Positions("benchEnd") : j < i}) = 2
             /\ \E j \in Positions("benchstat") : j < i /\ log[j].ok
       /\ first = Empty =>
             Cardinality({j \in Positions("benchEnd") : j < i}) = 1

C20_Witness ==
    /\ Succeeded /\ hasUncommitted /\ userBase = Empty
    /\ \E i \in Positions("pprof") :
          /\ log[i].f1 = profileOutFilename(OutDir, StashLabel)
          /\ log[i].ok

====
